---- MODULE Spec2Model ----
(* Session booking / settlement backend (src/index.ts).                    *)
(* One session document in the store, booking requests that run the        *)
(* /finalize-booking transaction, settlement requests that run             *)
(* /claim-session or /cancel-session, and the payment gateway's holds.     *)
EXTENDS Integers, Sequences, FiniteSets, TLC

(* ---------------------------------------------------------------- bounds *)
MaxSeats == 2
NumReqs == 3
NumSettle == 2
NumRiders == 3
MaxCalls == 3

Reqs == 1..NumReqs
Settles == 1..NumSettle
Riders == 1..NumRiders

(* ------------------------------------------------------------- constants *)
OPEN == "open"
MIN_REACHED == "min_reached"
FULL == "full"
CLAIMED == "claimed"
CANCELLED == "cancelled"

AUTHORIZED == "authorized"
CAPTURED == "captured"
RIDER_CANCELLED == "cancelled"

NoStatus == "undefined"
NoTime == 0
NoRider == 0

MsgSuccess == "success"
MsgNotFound == "Session not found"
MsgNotBookable == "Session not bookable"
MsgFull == "Session full"
MsgAlreadyBooked == "Already booked"
MsgNotReady == "Not ready to claim"
MsgGatewayError == "gateway error"
NoResult == "none"

VARIABLES
    session,       \* the stored session document
    bpc,           \* booking request: position in /finalize-booking
    bUid,          \* booking request: riderUid of the request body
    bReadTime,     \* booking request: update time of the snapshot tx.get returned
    bRes,          \* booking request: response sent
    spc,           \* settlement request: position in /claim-session or /cancel-session
    sStatus,       \* settlement request: session.status as read
    sRiders,       \* settlement request: local riders array
    sIdx,          \* settlement request: loop position in riders
    sRes,          \* settlement request: response sent
    hold,          \* gateway: state of each payment intent
    captureCalls,  \* gateway: capture requests received per payment intent
    cancelCalls    \* gateway: cancel requests received per payment intent

vars == <<session, bpc, bUid, bReadTime, bRes, spc, sStatus, sRiders, sIdx,
          sRes, hold, captureCalls, cancelCalls>>
bvars == <<bpc, bUid, bReadTime, bRes>>
svars == <<spc, sStatus, sRiders, sIdx, sRes>>
gvars == <<hold, captureCalls, cancelCalls>>

(* --------------------------------------------------------------- helpers *)
\* variant: only CLAIMED counts as final
isFinalStatus_ClaimedOnly(status) ==
    status = CLAIMED

isFinalStatus(status) ==
    status = CLAIMED \/ status = CANCELLED

\* variant: an OPEN session can be claimed too
canClaim_Open(status) ==
    status = OPEN \/ status = MIN_REACHED \/ status = FULL

canClaim(status) ==
    status = MIN_REACHED \/ status = FULL

\* session.status || SESSION_STATUS.OPEN
StatusOrOpen(s) ==
    IF s.status = NoStatus THEN OPEN ELSE s.status

NewSession(t, m) ==
    [exists |-> TRUE, status |-> OPEN, bookedSeats |-> 0, totalSeats |-> t,
     minRidersToConfirm |-> m, ridersProfile |-> <<>>,
     claimedAt |-> NoTime, cancelledAt |-> NoTime, updateTime |-> 1]

AbsentSession ==
    [exists |-> FALSE, status |-> NoStatus, bookedSeats |-> 0, totalSeats |-> 0,
     minRidersToConfirm |-> 0, ridersProfile |-> <<>>,
     claimedAt |-> NoTime, cancelledAt |-> NoTime, updateTime |-> 0]

Init ==
    /\ session \in {AbsentSession}
                   \cup {NewSession(t, m) : t \in 1..MaxSeats, m \in 1..MaxSeats}
    /\ session.minRidersToConfirm <= session.totalSeats
    /\ bpc = [r \in Reqs |-> "idle"]
    /\ bUid = [r \in Reqs |-> NoRider]
    /\ bReadTime = [r \in Reqs |-> 0]
    /\ bRes = [r \in Reqs |-> NoResult]
    /\ spc = [p \in Settles |-> "idle"]
    /\ sStatus = [p \in Settles |-> NoStatus]
    /\ sRiders = [p \in Settles |-> <<>>]
    /\ sIdx = [p \in Settles |-> 0]
    /\ sRes = [p \in Settles |-> NoResult]
    /\ hold = [h \in Reqs |-> AUTHORIZED]
    /\ captureCalls = [h \in Reqs |-> 0]
    /\ cancelCalls = [h \in Reqs |-> 0]

(* ------------------------------------------------------- finalize-booking *)
\* variant: the capacity check compares with > instead of >=
SeatsExhausted_Strict(s) ==
    s.bookedSeats > s.totalSeats

SeatsExhausted(s) ==
    s.bookedSeats >= s.totalSeats

\* variant: the rider is never found in ridersProfile
alreadyBooked_Never(s, uid) ==
    FALSE

alreadyBooked(s, uid) ==
    \E i \in 1..Len(s.ridersProfile) : s.ridersProfile[i].uid = uid

\* variant: the capacity check runs before the status check
BookingCheck_FullFirst(s, uid) ==
    IF ~s.exists THEN MsgNotFound
    ELSE IF SeatsExhausted(s) THEN MsgFull
    ELSE IF isFinalStatus(StatusOrOpen(s)) THEN MsgNotBookable
    ELSE IF alreadyBooked(s, uid) THEN MsgAlreadyBooked
    ELSE MsgSuccess

\* variant: the duplicate check runs before the capacity check
BookingCheck_DupFirst(s, uid) ==
    IF ~s.exists THEN MsgNotFound
    ELSE IF isFinalStatus(StatusOrOpen(s)) THEN MsgNotBookable
    ELSE IF alreadyBooked(s, uid) THEN MsgAlreadyBooked
    ELSE IF SeatsExhausted(s) THEN MsgFull
    ELSE MsgSuccess

\* the checks of the transaction's update function, first failure wins
BookingCheck(s, uid) ==
    IF ~s.exists THEN MsgNotFound
    ELSE IF isFinalStatus(StatusOrOpen(s)) THEN MsgNotBookable
    ELSE IF SeatsExhausted(s) THEN MsgFull
    ELSE IF alreadyBooked(s, uid) THEN MsgAlreadyBooked
    ELSE MsgSuccess

\* variant: the minimum is reached only above minRidersToConfirm
newStatus_Strict(newBookedSeats, s) ==
    IF newBookedSeats >= s.totalSeats THEN FULL
    ELSE IF newBookedSeats > s.minRidersToConfirm THEN MIN_REACHED
    ELSE OPEN

newStatus(newBookedSeats, s) ==
    IF newBookedSeats >= s.totalSeats THEN FULL
    ELSE IF newBookedSeats >= s.minRidersToConfirm THEN MIN_REACHED
    ELSE OPEN

updatedRiders(s, uid, paymentIntentId) ==
    Append(s.ridersProfile,
           [uid |-> uid, paymentIntentId |-> paymentIntentId, status |-> AUTHORIZED])

\* the update function of runTransaction, run on the snapshot tx.get returned:
\* a throw ends the request with the error, otherwise the write waits for commit
RunUpdateFunction(r, uid) ==
    LET res == BookingCheck(session, uid) IN
      /\ bUid' = [bUid EXCEPT ![r] = uid]
      /\ IF res = MsgSuccess
         THEN /\ bpc' = [bpc EXCEPT ![r] = "txcommit"]
              /\ bReadTime' = [bReadTime EXCEPT ![r] = session.updateTime]
              /\ UNCHANGED bRes
         ELSE /\ bpc' = [bpc EXCEPT ![r] = "done"]
              /\ bRes' = [bRes EXCEPT ![r] = res]
              /\ UNCHANGED bReadTime
      /\ UNCHANGED <<session, svars, gvars>>

\* /finalize-booking: request received with all four parameters, the
\* transaction is started and reads the document. Requests are numbered in
\* the order the server receives them.
FinalizeBooking(r, uid) ==
    /\ bpc[r] = "idle"
    /\ \A q \in Reqs : q < r => bpc[q] # "idle"
    /\ RunUpdateFunction(r, uid)

\* runTransaction's next attempt after a conflicting commit
TxRetry(r) ==
    /\ bpc[r] = "txretry"
    /\ RunUpdateFunction(r, bUid[r])

\* variant: the commit always reports a conflict
TxConflict_Always(r) ==
    TRUE

\* variant: the commit never detects a concurrent write
TxConflict_Never(r) ==
    FALSE

\* the document was written since the snapshot was read
TxConflict(r) ==
    session.updateTime # bReadTime[r]

\* commit of tx.update: applied if the document is unchanged since tx.get,
\* otherwise runTransaction runs the update function again
TxCommit(r) ==
    /\ bpc[r] = "txcommit"
    /\ IF TxConflict(r)
       THEN /\ bpc' = [bpc EXCEPT ![r] = "txretry"]
            /\ UNCHANGED <<session, bRes>>
       ELSE /\ session' = [session EXCEPT
                   !.bookedSeats = session.bookedSeats + 1,
                   !.ridersProfile = updatedRiders(session, bUid[r], r),
                   !.status = newStatus(session.bookedSeats + 1, session),
                   !.updateTime = session.updateTime + 1]
            /\ bpc' = [bpc EXCEPT ![r] = "done"]
            /\ bRes' = [bRes EXCEPT ![r] = MsgSuccess]
    /\ UNCHANGED <<bUid, bReadTime, svars, gvars>>

(* ---------------------------------------------------------------- gateway *)
\* stripe.paymentIntents.capture: only an authorized hold can be captured,
\* and the call may fail
CaptureOutcomes(h) ==
    IF hold[h] = AUTHORIZED THEN {TRUE, FALSE} ELSE {FALSE}

\* stripe.paymentIntents.cancel: only an authorized hold can be released,
\* and the call may fail
CancelOutcomes(h) ==
    IF hold[h] = AUTHORIZED THEN {TRUE, FALSE} ELSE {FALSE}

\* the gateway's count of the requests for one hold (counted up to MaxCalls)
CountCall(n) ==
    IF n < MaxCalls THEN n + 1 ELSE n

(* ------------------------------------------------------------ settlement *)
NeedsSettle(rider) ==
    rider.paymentIntentId # 0 /\ rider.status = AUTHORIZED

SettleDone(p, res) ==
    /\ spc' = [spc EXCEPT ![p] = "done"]
    /\ sRes' = [sRes EXCEPT ![p] = res]
    /\ sStatus' = [sStatus EXCEPT ![p] = NoStatus]
    /\ sRiders' = [sRiders EXCEPT ![p] = <<>>]
    /\ sIdx' = [sIdx EXCEPT ![p] = 0]

\* settlement requests are numbered in the order the server receives them
NextSettleRequest(p) ==
    /\ spc[p] = "idle"
    /\ \A q \in Settles : q < p => spc[q] # "idle"

\* /claim-session up to the capture loop
ClaimSession(p) ==
    /\ NextSettleRequest(p)
    /\ IF ~session.exists THEN SettleDone(p, MsgNotFound)
       ELSE IF ~canClaim(session.status) THEN SettleDone(p, MsgNotReady)
       ELSE /\ spc' = [spc EXCEPT ![p] = "claim_loop"]
            /\ sStatus' = [sStatus EXCEPT ![p] = session.status]
            /\ sRiders' = [sRiders EXCEPT ![p] = session.ridersProfile]
            /\ sIdx' = [sIdx EXCEPT ![p] = 1]
            /\ UNCHANGED sRes
    /\ UNCHANGED <<session, bvars, gvars>>

\* variant: the rider is marked CAPTURED although the capture failed
ClaimCaptureFailed_Marked(p) ==
    /\ sRiders' = [sRiders EXCEPT ![p][sIdx[p]].status = CAPTURED]
    /\ sIdx' = [sIdx EXCEPT ![p] = sIdx[p] + 1]
    /\ UNCHANGED <<spc, sStatus, sRes>>

\* variant: the failure is swallowed and the loop goes on
ClaimCaptureFailed_Swallow(p) ==
    /\ sIdx' = [sIdx EXCEPT ![p] = sIdx[p] + 1]
    /\ UNCHANGED <<spc, sStatus, sRiders, sRes>>

\* a failed capture throws: the catch answers 500 and nothing is written
ClaimCaptureFailed(p) ==
    SettleDone(p, MsgGatewayError)

\* one iteration of the capture loop
ClaimLoop(p) ==
    /\ spc[p] = "claim_loop"
    /\ sIdx[p] <= Len(sRiders[p])
    /\ LET rider == sRiders[p][sIdx[p]]
           h == rider.paymentIntentId IN
         IF NeedsSettle(rider)
         THEN /\ captureCalls' = [captureCalls EXCEPT ![h] = CountCall(captureCalls[h])]
              /\ \E ok \in CaptureOutcomes(h) :
                   IF ok
                   THEN /\ hold' = [hold EXCEPT ![h] = CAPTURED]
                        /\ sRiders' = [sRiders EXCEPT ![p][sIdx[p]].status = CAPTURED]
                        /\ sIdx' = [sIdx EXCEPT ![p] = sIdx[p] + 1]
                        /\ UNCHANGED <<spc, sStatus, sRes>>
                   ELSE /\ ClaimCaptureFailed(p)
                        /\ UNCHANGED hold
         ELSE /\ sIdx' = [sIdx EXCEPT ![p] = sIdx[p] + 1]
              /\ UNCHANGED <<spc, sStatus, sRiders, sRes, hold, captureCalls>>
    /\ UNCHANGED <<session, bvars, cancelCalls>>

\* sessionRef.update after the capture loop
ClaimUpdate(p) ==
    /\ spc[p] = "claim_loop"
    /\ sIdx[p] > Len(sRiders[p])
    /\ session' = [session EXCEPT
            !.status = CLAIMED,
            !.ridersProfile = sRiders[p],
            !.claimedAt = session.updateTime + 1,
            !.updateTime = session.updateTime + 1]
    /\ SettleDone(p, MsgSuccess)
    /\ UNCHANGED <<bvars, gvars>>

\* /cancel-session up to the cancel loop
CancelSession(p) ==
    /\ NextSettleRequest(p)
    /\ IF ~session.exists THEN SettleDone(p, MsgNotFound)
       ELSE /\ spc' = [spc EXCEPT ![p] = "cancel_loop"]
            /\ sStatus' = [sStatus EXCEPT ![p] = session.status]
            /\ sRiders' = [sRiders EXCEPT ![p] = session.ridersProfile]
            /\ sIdx' = [sIdx EXCEPT ![p] = 1]
            /\ UNCHANGED sRes
    /\ UNCHANGED <<session, bvars, gvars>>

\* variant: the failure is swallowed and the loop goes on
CancelReleaseFailed_Swallow(p) ==
    /\ sIdx' = [sIdx EXCEPT ![p] = sIdx[p] + 1]
    /\ UNCHANGED <<spc, sStatus, sRiders, sRes>>

\* a failed cancel throws: the catch answers 500 and nothing is written
CancelReleaseFailed(p) ==
    SettleDone(p, MsgGatewayError)

\* one iteration of the cancel loop
CancelLoop(p) ==
    /\ spc[p] = "cancel_loop"
    /\ sIdx[p] <= Len(sRiders[p])
    /\ LET rider == sRiders[p][sIdx[p]]
           h == rider.paymentIntentId IN
         IF NeedsSettle(rider)
         THEN /\ cancelCalls' = [cancelCalls EXCEPT ![h] = CountCall(cancelCalls[h])]
              /\ \E ok \in CancelOutcomes(h) :
                   IF ok
                   THEN /\ hold' = [hold EXCEPT ![h] = RIDER_CANCELLED]
                        /\ sRiders' = [sRiders EXCEPT ![p][sIdx[p]].status = RIDER_CANCELLED]
                        /\ sIdx' = [sIdx EXCEPT ![p] = sIdx[p] + 1]
                        /\ UNCHANGED <<spc, sStatus, sRes>>
                   ELSE /\ CancelReleaseFailed(p)
                        /\ UNCHANGED hold
         ELSE /\ sIdx' = [sIdx EXCEPT ![p] = sIdx[p] + 1]
              /\ UNCHANGED <<spc, sStatus, sRiders, sRes, hold, cancelCalls>>
    /\ UNCHANGED <<session, bvars, captureCalls>>

\* sessionRef.update after the cancel loop
CancelUpdate(p) ==
    /\ spc[p] = "cancel_loop"
    /\ sIdx[p] > Len(sRiders[p])
    /\ session' = [session EXCEPT
            !.status = CANCELLED,
            !.ridersProfile = sRiders[p],
            !.cancelledAt = session.updateTime + 1,
            !.updateTime = session.updateTime + 1]
    /\ SettleDone(p, MsgSuccess)
    /\ UNCHANGED <<bvars, gvars>>

(* --------------------------------------------------------- specifications *)
NextBooking ==
    \E r \in Reqs :
        \/ \E uid \in Riders : FinalizeBooking(r, uid)
        \/ TxRetry(r)
        \/ TxCommit(r)

NextSettle ==
    \E p \in Settles :
        \/ ClaimSession(p)
        \/ ClaimLoop(p)
        \/ ClaimUpdate(p)
        \/ CancelSession(p)
        \/ CancelLoop(p)
        \/ CancelUpdate(p)

Next == NextBooking \/ NextSettle

Spec == Init /\ [][Next]_vars

\* every request in progress goes on to its next step
FairSteps ==
    /\ \A r \in Reqs : WF_vars(TxRetry(r)) /\ WF_vars(TxCommit(r))
    /\ \A p \in Settles :
          /\ WF_vars(ClaimLoop(p)) /\ WF_vars(ClaimUpdate(p))
          /\ WF_vars(CancelLoop(p)) /\ WF_vars(CancelUpdate(p))

SpecFair == Spec /\ FairSteps

\* booking requests only, no settlement operation
SpecBooking == Init /\ [][NextBooking]_vars

(* ------------------------------------------------ claim with caller retry *)
\* the caller sends /claim-session again after an error response
ClaimRetry(p) ==
    /\ spc[p] = "done"
    /\ sRes[p] # MsgSuccess
    /\ spc' = [spc EXCEPT ![p] = "idle"]
    /\ UNCHANGED <<session, bvars, sStatus, sRiders, sIdx, sRes, gvars>>

\* no settlement request has been sent yet
BookingPhase ==
    \A p \in Settles : spc[p] = "idle" /\ sRes[p] = NoResult

NoBookingInFlight ==
    \A r \in Reqs : bpc[r] \in {"idle", "done"}

\* a capture request that the gateway carries out
CaptureSucceeds(p) ==
    ClaimLoop(p) /\ hold' # hold

\* bookings first, then claim requests that are repeated after every failure,
\* with no booking and no cancel beside them
NextRetry ==
    \/ BookingPhase /\ NextBooking
    \/ \E p \in Settles :
          \/ NoBookingInFlight /\ ClaimSession(p)
          \/ ClaimLoop(p)
          \/ ClaimUpdate(p)
          \/ ClaimRetry(p)

\* every request in progress goes on, and a capture of an authorized hold
\* that is asked for again and again succeeds in the end
FairRetry ==
    /\ \A r \in Reqs : WF_vars(TxRetry(r)) /\ WF_vars(TxCommit(r))
    /\ \A p \in Settles :
          /\ WF_vars(NoBookingInFlight /\ ClaimSession(p))
          /\ WF_vars(ClaimLoop(p))
          /\ WF_vars(ClaimUpdate(p))
          /\ WF_vars(ClaimRetry(p))
          /\ SF_vars(CaptureSucceeds(p))

SpecRetry == Init /\ [][NextRetry]_vars /\ FairRetry

(* ----------------------------------------------------------------- claims *)
Started == {r \in Reqs : bpc[r] # "idle"}
Succeeded == {r \in Reqs : bRes[r] = MsgSuccess}
RejectedFull == {r \in Reqs : bRes[r] = MsgFull}
DistinctRiders == \A r1, r2 \in Started : r1 # r2 => bUid[r1] # bUid[r2]
Profile == session.ridersProfile
StoredStatusOf(uid, prof) ==
    {prof[j].status : j \in {k \in 1..Len(prof) : prof[k].uid = uid}}

\* C1: with booking requests only, the stored document always has
\* bookedSeats = length(ridersProfile) and bookedSeats <= totalSeats.
C1_SeatCount ==
    /\ session.bookedSeats = Len(Profile)
    /\ session.bookedSeats <= session.totalSeats

\* the session was filled and a further request was turned away
C1_Witness ==
    /\ session.exists
    /\ Len(Profile) = session.totalSeats
    /\ Len(Profile) >= 2
    /\ \E r \in Reqs : bRes[r] = MsgFull

\* C2: when N booking requests of N distinct riders have all ended on a
\* session of k < N seats, exactly k succeeded and N-k were rejected as full;
\* bookedSeats never exceeds totalSeats on the way.
C2_Concurrent ==
    /\ session.bookedSeats <= session.totalSeats
    /\ ( /\ session.exists
         /\ \A r \in Started : bpc[r] = "done"
         /\ DistinctRiders
         /\ session.totalSeats < Cardinality(Started)
       ) => /\ Cardinality(Succeeded) = session.totalSeats
            /\ Cardinality(RejectedFull) = Cardinality(Started) - session.totalSeats

\* all requests ended, one of them after losing a commit race: it had passed the
\* checks on its first snapshot and found the session full on the retry
C2_Witness ==
    /\ session.exists
    /\ Started = Reqs
    /\ \A r \in Reqs : bpc[r] = "done"
    /\ DistinctRiders
    /\ session.totalSeats < Cardinality(Started)
    /\ \E r \in Reqs : bRes[r] = MsgFull /\ bReadTime[r] # 0

\* C3 (as claimed): bookedSeats = length(ridersProfile) in every state, under
\* any interleaving of booking, claim and cancel.
C3_Original ==
    session.bookedSeats = Len(Profile)

\* C4 (as claimed): once the stored status is CLAIMED or CANCELLED no step
\* changes it.
C4_Original ==
    [][isFinalStatus(session.status) => session'.status = session.status]_vars

\* C5: while the stored status is not CLAIMED or CANCELLED it is FULL if
\* bookedSeats >= totalSeats, else MIN_REACHED if bookedSeats >=
\* minRidersToConfirm, else OPEN.
C5_StatusDerived ==
    (session.exists /\ ~isFinalStatus(session.status)) =>
        session.status =
            IF session.bookedSeats >= session.totalSeats THEN FULL
            ELSE IF session.bookedSeats >= session.minRidersToConfirm THEN MIN_REACHED
            ELSE OPEN

\* a claim run failed on the gateway and the session is still MIN_REACHED
\* below capacity
C5_Witness ==
    /\ session.status = MIN_REACHED
    /\ session.bookedSeats < session.totalSeats
    /\ \E p \in Settles : sRes[p] = MsgGatewayError

\* C6 (as claimed): a claim run in which some capture succeeded and one failed
\* has attempted every rider, leaves the stored status as it read it and
\* stores the succeeded riders as CAPTURED.
C6_Original ==
    [][\A p \in Settles :
          ( /\ spc[p] = "claim_loop"
            /\ spc'[p] = "done"
            /\ sRes'[p] = MsgGatewayError
            /\ \E i \in 1..Len(sRiders[p]) : sRiders[p][i].status = CAPTURED
          ) => /\ sIdx[p] = Len(sRiders[p])
               /\ session'.status = sStatus[p]
               /\ \A i \in 1..Len(sRiders[p]) :
                     sRiders[p][i].status = CAPTURED =>
                        StoredStatusOf(sRiders[p][i].uid, session'.ridersProfile)
                            = {CAPTURED}
    ]_vars

\* C7 (as claimed): no capture request is made for a hold that is already
\* captured.
C7_Original ==
    [][\A h \in Reqs : hold[h] = CAPTURED => captureCalls'[h] = captureCalls[h]]_vars

\* C8: a session is CLAIMED only after every capture of the claiming run
\* succeeded: in every state with status CLAIMED no stored rider is AUTHORIZED
\* and every stored rider's hold is captured at the gateway.
C8_ClaimedAllCaptured ==
    session.status = CLAIMED =>
        \A i \in 1..Len(Profile) :
            /\ Profile[i].status # AUTHORIZED
            /\ hold[Profile[i].paymentIntentId] = CAPTURED

\* a claim run failed on a capture, a later one went through
C8_Witness ==
    /\ session.status = CLAIMED
    /\ Len(Profile) >= 2
    /\ \E p \in Settles : sRes[p] = MsgGatewayError

\* C9 (as claimed): a cancel run that read a non-terminal session ends with
\* status CANCELLED and cancelledAt set, whatever the gateway answered; the
\* riders it released are stored CANCELLED.
C9_Original ==
    [][\A p \in Settles :
          ( /\ spc[p] = "cancel_loop"
            /\ spc'[p] = "done"
            /\ ~isFinalStatus(sStatus[p])
          ) => /\ session'.status = CANCELLED
               /\ session'.cancelledAt # NoTime
               /\ \A i \in 1..Len(sRiders[p]) :
                     sRiders[p][i].status = RIDER_CANCELLED =>
                        StoredStatusOf(sRiders[p][i].uid, session'.ridersProfile)
                            = {RIDER_CANCELLED}
    ]_vars

\* C10 (as claimed): a cancel request that finds the session CLAIMED or
\* CANCELLED does not go on to the gateway or to a write: it makes no cancel
\* call and leaves the stored session as it is.
C10_Original ==
    [][\A p \in Settles :
          /\ (spc[p] = "idle" /\ spc'[p] = "cancel_loop")
                => ~isFinalStatus(session.status)
          /\ ( /\ spc[p] = "cancel_loop"
               /\ isFinalStatus(sStatus[p])
               /\ (spc'[p] # spc[p] \/ sIdx'[p] # sIdx[p])
             ) => (session' = session /\ cancelCalls' = cancelCalls)
    ]_vars

\* C11: a claim request that reads a status other than MIN_REACHED or FULL
\* ends at once with "Not ready to claim": it does not enter the capture loop,
\* makes no capture call and writes nothing.
C11_NotReady ==
    [][\A p \in Settles :
          /\ (spc[p] = "idle" /\ spc'[p] = "claim_loop")
                => session.status \in {MIN_REACHED, FULL}
          /\ (spc[p] = "idle" /\ sRes'[p] = MsgNotReady)
                => /\ session.status \in {OPEN, CLAIMED, CANCELLED}
                   /\ spc'[p] = "done"
                   /\ session' = session
                   /\ captureCalls' = captureCalls
                   /\ hold' = hold
    ]_vars

\* a claim was refused on a session that an earlier claim had closed
C11_Witness ==
    /\ session.status = CLAIMED
    /\ \E p \in Settles : sRes[p] = MsgNotReady

\* C12: a booking request received while the stored status is CLAIMED or
\* CANCELLED is rejected with "Session not bookable" and leaves the document
\* unchanged, whatever the free seats and whoever the rider.
C12_NotBookable ==
    [][\A r \in Reqs :
          ( /\ bpc[r] = "idle"
            /\ bpc'[r] # "idle"
            /\ session.exists
            /\ session.status \in {CLAIMED, CANCELLED}
          ) => /\ bpc'[r] = "done"
               /\ bRes'[r] = MsgNotBookable
               /\ session' = session
    ]_vars

\* a request was turned away from a cancelled session that still had a free seat
C12_Witness ==
    /\ session.status = CANCELLED
    /\ session.bookedSeats < session.totalSeats
    /\ \E r \in Reqs : bRes[r] = MsgNotBookable

\* C13: no riderUid appears twice in the stored ridersProfile.
C13_UniqueRiders ==
    \A i, j \in 1..Len(Profile) : i # j => Profile[i].uid # Profile[j].uid

\* two riders are booked and a repeated request of one of them was refused
C13_Witness ==
    /\ Len(Profile) >= 2
    /\ \E r \in Reqs : bRes[r] = MsgAlreadyBooked

\* C14 (as claimed): a booking request of a rider whom an earlier request has
\* booked is rejected with "Already booked", whatever was booked in between.
C14_Original ==
    [][\A r \in Reqs :
          ( /\ bpc[r] = "idle"
            /\ bpc'[r] # "idle"
            /\ \E q \in Reqs : bRes[q] = MsgSuccess /\ bUid[q] = bUid'[r]
          ) => bRes'[r] = MsgAlreadyBooked
    ]_vars

\* C14 (amended): such a request is always rejected without a write, with
\* "Session not bookable" if the session is CLAIMED or CANCELLED by then, else
\* with "Session full" if no seat is free, else with "Already booked".
C14_RepeatRejected ==
    [][\A r \in Reqs :
          ( /\ bpc[r] = "idle"
            /\ bpc'[r] # "idle"
            /\ \E q \in Reqs : bRes[q] = MsgSuccess /\ bUid[q] = bUid'[r]
          ) => /\ bpc'[r] = "done"
               /\ session' = session
               /\ bRes'[r] =
                    IF session.status \in {CLAIMED, CANCELLED} THEN MsgNotBookable
                    ELSE IF session.bookedSeats >= session.totalSeats THEN MsgFull
                    ELSE MsgAlreadyBooked
    ]_vars

\* a rider's repeated request came after the session had been filled, and was
\* rejected as full on its first read
C14_Witness ==
    \E q, r \in Reqs :
        /\ q # r
        /\ bRes[q] = MsgSuccess
        /\ bUid[r] = bUid[q]
        /\ bRes[r] = MsgFull
        /\ bReadTime[r] = 0
        /\ session.totalSeats >= 2

\* C16: the stored paymentStatus of a rider changes only from AUTHORIZED to
\* CAPTURED or CANCELLED, and only in the update of a claim or cancel run that
\* ends in success; a stored CAPTURED or CANCELLED never changes.
C16_PaymentStatusOnce ==
    [][\A uid \in Riders :
          LET before == StoredStatusOf(uid, Profile)
              after == StoredStatusOf(uid, session'.ridersProfile) IN
            (before # {} /\ after # {} /\ before # after) =>
                /\ before = {AUTHORIZED}
                /\ after \in {{CAPTURED}, {RIDER_CANCELLED}}
                /\ \E p \in Settles :
                      /\ spc[p] \in {"claim_loop", "cancel_loop"}
                      /\ spc'[p] = "done"
                      /\ sRes'[p] = MsgSuccess
    ]_vars

\* a cancel run released a rider while an overlapping settlement run failed
\* on the gateway
C16_Witness ==
    /\ session.status = CANCELLED
    /\ \E i \in 1..Len(Profile) : Profile[i].status = RIDER_CANCELLED
    /\ \E p \in Settles : sRes[p] = MsgGatewayError

\* C17: a booking transaction reports the first failing check in the order
\* not found, not bookable, full, already booked, goes on to the commit only
\* if none fails, and no rejected request changes the document.
C17_CheckOrder ==
    [][\A r \in Reqs :
          ( /\ bpc[r] \in {"idle", "txretry"}
            /\ bpc'[r] # bpc[r]
          ) => /\ session' = session
               /\ IF ~session.exists
                    THEN bpc'[r] = "done" /\ bRes'[r] = MsgNotFound
                  ELSE IF session.status \in {CLAIMED, CANCELLED}
                    THEN bpc'[r] = "done" /\ bRes'[r] = MsgNotBookable
                  ELSE IF session.bookedSeats >= session.totalSeats
                    THEN bpc'[r] = "done" /\ bRes'[r] = MsgFull
                  ELSE IF \E i \in 1..Len(Profile) : Profile[i].uid = bUid'[r]
                    THEN bpc'[r] = "done" /\ bRes'[r] = MsgAlreadyBooked
                  ELSE bpc'[r] = "txcommit" /\ bRes'[r] = NoResult
    ]_vars

\* a booked rider's repeated request on the full session got "Session full",
\* and after the session was closed a request got "Session not bookable"
\* although the session was full as well
C17_Witness ==
    /\ session.status \in {CLAIMED, CANCELLED}
    /\ session.bookedSeats >= session.totalSeats
    /\ \E r \in Reqs : bRes[r] = MsgNotBookable
    /\ \E q, r \in Reqs :
          q # r /\ bRes[q] = MsgSuccess /\ bUid[r] = bUid[q] /\ bRes[r] = MsgFull

\* C18 (as claimed): claimedAt and cancelledAt are each written only by the
\* write that takes the session from a non-terminal status to CLAIMED or to
\* CANCELLED, and never both.
C18_Original ==
    [][/\ session'.claimedAt # session.claimedAt =>
            /\ session.claimedAt = NoTime
            /\ session.status \notin {CLAIMED, CANCELLED}
            /\ session'.status = CLAIMED
       /\ session'.cancelledAt # session.cancelledAt =>
            /\ session.cancelledAt = NoTime
            /\ session.status \notin {CLAIMED, CANCELLED}
            /\ session'.status = CANCELLED
       /\ (session'.claimedAt = NoTime \/ session'.cancelledAt = NoTime)
    ]_vars

\* C20: a rider stored as CAPTURED has a hold the gateway captured, and a
\* rider stored as CANCELLED has a hold the gateway released.
C20_StoredMatchesGateway ==
    \A i \in 1..Len(Profile) :
        /\ Profile[i].status = CAPTURED
              => hold[Profile[i].paymentIntentId] = CAPTURED
        /\ Profile[i].status = RIDER_CANCELLED
              => hold[Profile[i].paymentIntentId] = RIDER_CANCELLED

\* riders are stored CAPTURED after a capture request had failed and was
\* repeated by a later run
C20_Witness ==
    /\ \E i \in 1..Len(Profile) :
          /\ Profile[i].status = CAPTURED
          /\ captureCalls[Profile[i].paymentIntentId] >= 2

\* C15 (as claimed): with a gateway that in the end captures every authorized
\* hold and refuses a captured one, and with no booking or cancel beside the
\* claim requests, a session that is MIN_REACHED or FULL is CLAIMED in the end
\* when the claim is sent again after every failure.
C15_Original ==
    canClaim(session.status) ~> (session.status = CLAIMED)

\* C19: under fair scheduling the booking requests, finitely many, all end
\* (from some point on none is in progress), each with success or with one of
\* the four rejections; a commit conflict only sends the transaction back to
\* read and check again.
C19_BookingTerminates ==
    /\ <>[](\A r \in Reqs : bpc[r] \in {"idle", "done"})
    /\ [](\A r \in Reqs :
            bpc[r] = "done" =>
                bRes[r] \in {MsgSuccess, MsgNotFound, MsgNotBookable, MsgFull,
                             MsgAlreadyBooked})
    /\ [][\A r \in Reqs :
            (bpc[r] = "txcommit" /\ session.updateTime # bReadTime[r]
                /\ bpc'[r] # bpc[r])
               => (bpc'[r] = "txretry" /\ bRes'[r] = NoResult /\ session' = session)
       ]_vars

\* a request lost its commit to a settlement write, read again and was
\* rejected as not bookable
C19_Witness ==
    \E r \in Reqs : bRes[r] = MsgNotBookable /\ bReadTime[r] # 0
====
